---- MODULE Spec2Model ----
(***************************************************************************)
(* CSVToGeo: the key-file parser (read_key.py), the typed value parser     *)
(* (parse_datatypes.py) and the two-pass row pipeline (CSVToGeoJSON.py).   *)
(*                                                                         *)
(* Text is modelled by TLA+ strings and inspected character by character;  *)
(* a CSV file is the sequence of rows csv.reader yields, a row a sequence  *)
(* of cells.  A Python dict is a function whose DOMAIN is its key set.     *)
(* A raised exception is recorded by its class name.                       *)
(***************************************************************************)
EXTENDS Integers, Sequences, FiniteSets, TLC

VARIABLES
    pc,        \* position of the program
    keyrows,   \* the rows of the key file, as csv.reader yields them
    kpos,      \* number of key-file rows the reader has yielded (reader.line_num)
    retval,    \* _read_globals: the dict being built
    cst,       \* _read_cols: the loop's locals colgrid, name_line, blanks, recno
    kf,        \* the KeyFile object: globals, hdr_to_id, ids
    err,       \* class name of the exception that ended the run, "" if none
    datafile,  \* the data file: its header row and its data rows
    old_output,     \* whether an output file exists from an earlier run
    dpos,      \* number of data rows the current pass has read
    row_count,      \* check_cols: row_count
    skipped_count,  \* check_cols: skipped_count
    skipped_msgs,   \* check_cols: skipped_msgs
    str_col_widths, \* check_cols: str_col_widths
    last,      \* the latest call of process_data_row: its raw_record, line_num, result
    out,       \* the output data source: created, its fields, its features
    parser,    \* a ParseDatatype object: its number_NA and string_NA
    pcall      \* the latest call of a method of parser: method, arguments, result

keyvars == <<keyrows, kpos, retval, cst, kf>>
datavars == <<datafile, old_output, dpos, row_count, skipped_count, skipped_msgs,
              str_col_widths, last, out>>
parsevars == <<parser, pcall>>
vars == <<pc, err, keyvars, datavars, parsevars>>

-----------------------------------------------------------------------------
(* Text *)

Ch(s, i) == SubSeq(s, i, i)

Max2(a, b) == IF a >= b THEN a ELSE b

\* str.strip(): leading and trailing blanks removed.
RECURSIVE strip(_)
strip(s) ==
    IF Len(s) > 0 /\ Ch(s, 1) = " " THEN strip(SubSeq(s, 2, Len(s)))
    ELSE IF Len(s) > 0 /\ Ch(s, Len(s)) = " " THEN strip(SubSeq(s, 1, Len(s) - 1))
    ELSE s

StripRow(row) == [j \in 1..Len(row) |-> strip(row[j])]

Digits == {"0", "1", "2", "3", "4", "5", "6", "7", "8", "9"}

Letters ==
    {"a", "b", "c", "d", "e", "f", "g", "h", "i", "j", "k", "l", "m",
     "n", "o", "p", "q", "r", "s", "t", "u", "v", "w", "x", "y", "z",
     "A", "B", "C", "D", "E", "F", "G", "H", "I", "J", "K", "L", "M",
     "N", "O", "P", "Q", "R", "S", "T", "U", "V", "W", "X", "Y", "Z"}

DigitVal(c) ==
    CASE c = "0" -> 0 [] c = "1" -> 1 [] c = "2" -> 2 [] c = "3" -> 3
      [] c = "4" -> 4 [] c = "5" -> 5 [] c = "6" -> 6 [] c = "7" -> 7
      [] c = "8" -> 8 [] c = "9" -> 9

AllIn(s, cls) == \A i \in 1..Len(s) : Ch(s, i) \in cls

RECURSIVE DigitsVal(_)
DigitsVal(s) ==
    IF Len(s) = 0 THEN 0
    ELSE 10 * DigitsVal(SubSeq(s, 1, Len(s) - 1)) + DigitVal(Ch(s, Len(s)))

HasSign(s) == Len(s) > 0 /\ Ch(s, 1) \in {"+", "-"}
Unsigned(s) == IF HasSign(s) THEN SubSeq(s, 2, Len(s)) ELSE s
SignOf(s) == IF Len(s) > 0 /\ Ch(s, 1) = "-" THEN -1 ELSE 1

\* int(s) succeeds: an optional sign and one or more decimal digits, with
\* blanks around them allowed.
IntLiteral(s) == Len(Unsigned(strip(s))) > 0 /\ AllIn(Unsigned(strip(s)), Digits)
IntValue(s) == SignOf(strip(s)) * DigitsVal(Unsigned(strip(s)))

\* float(s) succeeds: blanks around allowed, an optional sign, then nan, inf
\* or infinity, or decimal digits with at most one point and at least one
\* digit.  (Exponents, and
\* the mixed-case spellings other than these, are not modelled; no cell of
\* the inputs below spells one.)
NanSpellings == {"nan", "NaN", "NAN"}
InfSpellings == {"inf", "Inf", "INF", "infinity", "Infinity", "INFINITY"}
DotsAt(s) == {i \in 1..Len(s) : Ch(s, i) = "."}
WithoutDot(s) ==
    IF DotsAt(s) = {} THEN s
    ELSE LET d == CHOOSE i \in DotsAt(s) : TRUE
         IN SubSeq(s, 1, d - 1) \o SubSeq(s, d + 1, Len(s))
FracLen(s) ==
    IF DotsAt(s) = {} THEN 0 ELSE Len(s) - (CHOOSE i \in DotsAt(s) : TRUE)
RealLiteral(s) ==
    LET u == Unsigned(strip(s))
    IN  \/ u \in NanSpellings \cup InfSpellings
        \/ /\ Cardinality(DotsAt(u)) <= 1
           /\ Len(WithoutDot(u)) > 0
           /\ AllIn(WithoutDot(u), Digits)

\* A real is the exact decimal n / 10^k with no trailing zero in the
\* fraction, so equal values have equal representations; k = -1 marks the
\* values that are no number: nan (n = 0), inf (n = 1) and -inf (n = -1).
NaN == [n |-> 0, k |-> -1]
Inf(sign) == [n |-> sign, k |-> -1]
IsFinite(x) == x.k >= 0
RECURSIVE Normal(_, _)
Normal(n, k) ==
    IF k > 0 /\ n % 10 = 0 THEN Normal(n \div 10, k - 1) ELSE [n |-> n, k |-> k]
RealValue(s) ==
    LET u == Unsigned(strip(s))
    IN  IF u \in NanSpellings THEN NaN
        ELSE IF u \in InfSpellings THEN Inf(SignOf(strip(s)))
        ELSE Normal(SignOf(strip(s)) * DigitsVal(WithoutDot(u)), FracLen(u))

RECURSIVE Pow10(_)
Pow10(k) == IF k = 0 THEN 1 ELSE 10 * Pow10(k - 1)

\* x < y, x > y for a real x and an integer y; every comparison with nan
\* is false.
RealLtInt(x, y) == IF IsFinite(x) THEN x.n < y * Pow10(x.k) ELSE x.n < 0
RealGtInt(x, y) == IF IsFinite(x) THEN x.n > y * Pow10(x.k) ELSE x.n > 0

-----------------------------------------------------------------------------
(* Dicts *)

EmptyDict == << >>
Put(d, k, v) == [x \in (DOMAIN d) \cup {k} |-> IF x = k THEN v ELSE d[x]]


-----------------------------------------------------------------------------
(* Values: Python None, str, int, float; a raised ValueError *)

None == [t |-> "None"]
StrV(s) == [t |-> "str", v |-> s]
IntV(i) == [t |-> "int", v |-> i]
RealV(x) == [t |-> "real", v |-> x]
Raised == [t |-> "ValueError"]

-----------------------------------------------------------------------------
(* Regular expressions.  re.compile and match are Python's; the model     *)
(* knows the patterns a key file of the inputs below can hold.             *)

PatLL == "^(?P<dlat>[-0-9.]+),(?P<dlon>[-0-9.]+)$"
PatTag == "^(?P<cnt>[0-9a-z]*);(?P<dlat>[-0-9.]*),(?P<dlon>[-0-9.]+)?$"
PatNoLat == "^(?P<dlon>[-0-9.]+)$"
PatNoLon == "^(?P<dlat>[-0-9.]+)$"
PatBad == "^(?P<dlat>[-0-9.]+,(?P<dlon>[-0-9.]+)$"

re_compiles(p) == p \in {PatLL, PatTag, PatNoLat, PatNoLon}

groupindex(p) ==
    CASE p = PatLL -> {"dlat", "dlon"}
      [] p = PatTag -> {"cnt", "dlat", "dlon"}
      [] p = PatNoLat -> {"dlon"}
      [] p = PatNoLon -> {"dlat"}

LLClass == Digits \cup {"-", "."}
Lower ==
    {"a", "b", "c", "d", "e", "f", "g", "h", "i", "j", "k", "l", "m",
     "n", "o", "p", "q", "r", "s", "t", "u", "v", "w", "x", "y", "z"}
TagClass == Digits \cup Lower

At(s, c) == {i \in 1..Len(s) : Ch(s, i) = c}
NoMatch == [matched |-> FALSE]

\* pattern.match(s): whether it matches, and each named group's text
\* (None for a group that took no part in the match).
re_match(p, s) ==
    LET commas == At(s, ",")
        semis == At(s, ";")
        cm == CHOOSE i \in commas : TRUE
        sc == CHOOSE i \in semis : TRUE
    IN  CASE p = PatLL ->
               IF /\ Cardinality(commas) = 1
                  /\ cm > 1 /\ cm < Len(s)
                  /\ AllIn(SubSeq(s, 1, cm - 1), LLClass)
                  /\ AllIn(SubSeq(s, cm + 1, Len(s)), LLClass)
               THEN [matched |-> TRUE,
                     groups |-> [g \in {"dlat", "dlon"} |->
                        IF g = "dlat" THEN StrV(SubSeq(s, 1, cm - 1))
                        ELSE StrV(SubSeq(s, cm + 1, Len(s)))]]
               ELSE NoMatch
          [] p = PatTag ->
               IF /\ Cardinality(commas) = 1 /\ Cardinality(semis) = 1
                  /\ sc < cm
                  /\ AllIn(SubSeq(s, 1, sc - 1), TagClass)
                  /\ AllIn(SubSeq(s, sc + 1, cm - 1), LLClass)
                  /\ AllIn(SubSeq(s, cm + 1, Len(s)), LLClass)
               THEN [matched |-> TRUE,
                     groups |-> [g \in {"cnt", "dlat", "dlon"} |->
                        IF g = "cnt" THEN StrV(SubSeq(s, 1, sc - 1))
                        ELSE IF g = "dlat" THEN StrV(SubSeq(s, sc + 1, cm - 1))
                        ELSE IF cm = Len(s) THEN None
                        ELSE StrV(SubSeq(s, cm + 1, Len(s)))]]
               ELSE NoMatch
          [] p = PatNoLat ->
               IF Len(s) > 0 /\ AllIn(s, LLClass)
               THEN [matched |-> TRUE, groups |-> [g \in {"dlon"} |-> StrV(s)]]
               ELSE NoMatch
          [] p = PatNoLon ->
               IF Len(s) > 0 /\ AllIn(s, LLClass)
               THEN [matched |-> TRUE, groups |-> [g \in {"dlat"} |-> StrV(s)]]
               ELSE NoMatch

-----------------------------------------------------------------------------
(* read_key.py: KeyFile._read_globals *)

expected_keys ==
    {"source", "epsg_code", "dlatcol", "dloncol", "dllcol", "dllre",
     "encoding", "maxskippct"}

\* The codes osgeo.osr.SpatialReference.ImportFromEPSG resolves.
KnownEPSG == {4326, 3857}

\* The names str.encode accepts.
KnownEncodings == {"utf-8", "latin1"}

\* One iteration of the loop over the global rows: the section ends
\* ("break"), the row is taken or skipped ("continue"), or it raises.
globals_row(rv, rawrow) ==
    LET row == StripRow(rawrow)
        key == row[1]
        val == row[2]
        continue(d) == [ctl |-> "continue", retval |-> d]
        raise == [ctl |-> "ValueError", retval |-> rv]
    IN  IF Len(row) < 1 \/ row[1] = "" THEN [ctl |-> "break", retval |-> rv]
        ELSE IF key \notin expected_keys THEN raise
        ELSE IF Len(row) < 2 \/ val = "" THEN continue(rv)
        ELSE IF key = "epsg_code" THEN
            IF ~IntLiteral(val) THEN raise
            ELSE IF IntValue(val) \notin KnownEPSG THEN raise
            ELSE continue(Put(rv, key, IntValue(val)))
        ELSE IF key = "maxskippct" THEN
            IF ~RealLiteral(val) THEN raise
            ELSE IF RealLtInt(RealValue(val), 0) \/ RealGtInt(RealValue(val), 99)
                 THEN raise
            ELSE continue(Put(rv, key, RealValue(val)))
        ELSE IF key = "dllre" THEN
            IF ~re_compiles(val) THEN raise
            ELSE IF "dlat" \notin groupindex(val) THEN raise
            ELSE IF "dlon" \notin groupindex(val) THEN raise
            ELSE continue(Put(rv, key, val))
        ELSE IF key = "encoding" THEN
            IF val \notin KnownEncodings THEN raise
            ELSE continue(Put(rv, key, val))
        ELSE continue(Put(rv, key, val))

\* After the loop: the defaults, and the checks of the set as a whole.
globals_finish(rv) ==
    LET d1 == IF "encoding" \notin DOMAIN rv THEN Put(rv, "encoding", "utf-8") ELSE rv
        d2 == IF "maxskippct" \notin DOMAIN d1
              THEN Put(d1, "maxskippct", [n |-> 0, k |-> 0]) ELSE d1
        has(k) == k \in DOMAIN d2
        raise == [ctl |-> "ValueError", retval |-> d2]
    IN  IF ~has("epsg_code") THEN raise
        ELSE IF has("dlatcol") /\ ~has("dloncol") THEN raise
        ELSE IF has("dloncol") /\ ~has("dlatcol") THEN raise
        ELSE IF has("dllcol") /\ ~has("dllre") THEN raise
        ELSE IF has("dllcol") /\ has("dlatcol") THEN raise
        ELSE [ctl |-> "return", retval |-> d2]

-----------------------------------------------------------------------------
(* read_key.py: KeyFile._read_cols *)

IdMaxLen == 10

\* idpat = re.compile('^[a-zA-Z][_a-zA-Z0-9]+$'); idpat.match(id)
idpat_match(id) ==
    /\ Len(id) >= 2
    /\ Ch(id, 1) \in Letters
    /\ AllIn(SubSeq(id, 2, Len(id)), Letters \cup Digits \cup {"_"})

Repeat(x, n) == [i \in 1..n |-> x]

FirstIndex(seq, x) ==
    CHOOSE i \in 1..Len(seq) : seq[i] = x /\ \A j \in 1..(i - 1) : seq[j] # x
LastIndex(seq, x) ==
    CHOOSE i \in 1..Len(seq) : seq[i] = x /\ \A j \in (i + 1)..Len(seq) : seq[j] # x

ColsStart == [colgrid |-> << >>, name_line |-> EmptyDict, blanks |-> 0, recno |-> 0]

\* One iteration of the loop over the column rows; st.recno is the
\* row's index in enumerate(reader).
cols_row(st, rawrow, line_num) ==
    LET row == StripRow(rawrow)
        allblank == \A j \in 1..Len(row) : row[j] = ""
        missing_cols == Len(row) - Len(st.colgrid)
        blank_col == Repeat("", st.recno - st.blanks)
        padded == st.colgrid \o Repeat(blank_col, Max2(missing_cols, 0))
    IN  IF allblank
        THEN [st EXCEPT !.blanks = @ + 1, !.recno = @ + 1]
        ELSE [colgrid |-> [j \in 1..Len(padded) |->
                            Append(padded[j], IF j <= Len(row) THEN row[j] ELSE "")],
              name_line |-> Put(st.name_line, row[1], line_num),
              blanks |-> st.blanks,
              recno |-> st.recno + 1]

\* The csv_header row taken to be the first row of the grid.
header_grididx_first(colgrid) == 1

\* header_grididx, identifier_grididx (1-based here)
header_grididx(colgrid) == FirstIndex(colgrid[1], "csv_header")
identifier_grididx(colgrid) == FirstIndex(colgrid[1], "identifier")

\* What the first loop over the columns does with one identifier:
\* "ValueError", "NameError" (logging is not imported) or "ok".
check_identifier(id) ==
    IF id = "" THEN "ok"
    ELSE IF ~idpat_match(id) THEN "ValueError"
    ELSE IF Len(id) > IdMaxLen THEN "NameError"
    ELSE "ok"

\* The dicts the loops over the columns build: a later column with the
\* same header or identifier, and a later row with the same name,
\* overwrite the earlier one.
build_hdr_to_id(colgrid) ==
    LET hi == header_grididx(colgrid)
        ii == identifier_grididx(colgrid)
        both == {j \in 2..Len(colgrid) : colgrid[j][hi] # "" /\ colgrid[j][ii] # ""}
        lastcol(h) == CHOOSE j \in both :
                      /\ colgrid[j][hi] = h
                      /\ \A j2 \in both : colgrid[j2][hi] = h => j2 <= j
    IN  [h \in {colgrid[j][hi] : j \in both} |-> colgrid[lastcol(h)][ii]]

build_ids(colgrid) ==
    LET ii == identifier_grididx(colgrid)
        cols == {j \in 2..Len(colgrid) : colgrid[j][ii] # ""}
        lastcol(id) == CHOOSE j \in cols :
                      /\ colgrid[j][ii] = id
                      /\ \A j2 \in cols : colgrid[j2][ii] = id => j2 <= j
        names == {colgrid[1][i] : i \in 1..Len(colgrid[1])}
    IN  [id \in {colgrid[j][ii] : j \in cols} |->
            [nm \in names |-> colgrid[lastcol(id)][LastIndex(colgrid[1], nm)]]]

\* The order of the keys of ids: the order in which the first loop over the
\* columns first meets each identifier.
RECURSIVE ids_order_from(_, _)
ids_order_from(colgrid, j) ==
    LET ii == identifier_grididx(colgrid)
        id == colgrid[j][ii]
        rest == ids_order_from(colgrid, j + 1)
    IN  IF j > Len(colgrid) THEN << >>
        ELSE IF id # "" /\ \A j2 \in 2..(j - 1) : colgrid[j2][ii] # id
             THEN <<id>> \o rest
        ELSE rest

datatype_ok(ids) ==
    \A id \in DOMAIN ids :
        id # "" => ids[id]["datatype"] \in {"string", "real", "integer"}

\* After the loop over the rows: the required rows, the identifiers, the
\* dicts, the datatypes.
cols_assemble(st) ==
    LET colgrid == st.colgrid
        raise(e) == [ctl |-> e, hdr_to_id |-> EmptyDict, ids |-> EmptyDict,
                     ids_order |-> << >>]
        ii == identifier_grididx(colgrid)
        bad == {j \in 2..Len(colgrid) : check_identifier(colgrid[j][ii]) # "ok"}
        firstbad == CHOOSE j \in bad : \A j2 \in bad : j <= j2
    IN  IF "csv_header" \notin DOMAIN st.name_line THEN raise("ValueError")
        ELSE IF "identifier" \notin DOMAIN st.name_line THEN raise("ValueError")
        ELSE IF "datatype" \notin DOMAIN st.name_line THEN raise("ValueError")
        ELSE IF bad # {} THEN raise(check_identifier(colgrid[firstbad][ii]))
        ELSE IF ~datatype_ok(build_ids(colgrid)) THEN raise("ValueError")
        ELSE [ctl |-> "return",
              hdr_to_id |-> build_hdr_to_id(colgrid),
              ids |-> build_ids(colgrid),
              ids_order |-> ids_order_from(colgrid, 2)]

-----------------------------------------------------------------------------
(* read_key.py: KeyFile.read, step by step *)

\* ids_order is the key order of the dict ids.
NewKeyFile ==
    [globals |-> EmptyDict, hdr_to_id |-> EmptyDict, ids |-> EmptyDict,
     ids_order |-> << >>]

ReadGlobalsRow ==
    /\ pc = "read_globals"
    /\ kpos < Len(keyrows)
    /\ LET r == globals_row(retval, keyrows[kpos + 1])
       IN  /\ kpos' = kpos + 1
           /\ retval' = r.retval
           /\ pc' = CASE r.ctl = "continue" -> "read_globals"
                      [] r.ctl = "break" -> "finish_globals"
                      [] OTHER -> "failed"
           /\ err' = IF r.ctl \in {"continue", "break"} THEN "" ELSE r.ctl
    /\ UNCHANGED <<parsevars, keyrows, cst, kf, datavars>>

FinishGlobals ==
    /\ \/ pc = "finish_globals"
       \/ pc = "read_globals" /\ kpos = Len(keyrows)
    /\ LET r == globals_finish(retval)
       IN  /\ retval' = r.retval
           /\ IF r.ctl = "return"
              THEN /\ kf' = [kf EXCEPT !.globals = r.retval]
                   /\ pc' = "read_cols"
                   /\ err' = ""
              ELSE /\ kf' = kf
                   /\ pc' = "failed"
                   /\ err' = r.ctl
    /\ UNCHANGED <<parsevars, keyrows, kpos, cst, datavars>>

ReadColsRow ==
    /\ pc = "read_cols"
    /\ kpos < Len(keyrows)
    /\ cst' = cols_row(cst, keyrows[kpos + 1], kpos + 1)
    /\ kpos' = kpos + 1
    /\ UNCHANGED <<parsevars, pc, err, keyrows, retval, kf, datavars>>

AssembleCols ==
    /\ pc = "read_cols"
    /\ kpos = Len(keyrows)
    /\ LET r == cols_assemble(cst)
       IN  IF r.ctl = "return"
           THEN /\ kf' = [kf EXCEPT !.hdr_to_id = r.hdr_to_id, !.ids = r.ids,
                                    !.ids_order = r.ids_order]
                /\ pc' = "key_read"
                /\ err' = ""
           ELSE /\ kf' = kf
                /\ pc' = "failed"
                /\ err' = r.ctl
    /\ UNCHANGED <<parsevars, keyrows, kpos, retval, cst, datavars>>

SeqsUpTo(S, n) == UNION {[1..m -> S] : m \in 0..n}

NoOutput == [created |-> FALSE, fields |-> << >>, features |-> << >>]
NoCall == [raw |-> << >>, line |-> 0, res |-> [kind |-> "none"]]

\* DATA_PARSE = ParseDatatype(number_NA=[''])
DATA_PARSE == [number_NA |-> {""}, string_NA |-> {}]
NoParseCall == [method |-> "none"]

\* No key file read and no data file opened yet.
PipelineStart ==
    /\ kpos = 0
    /\ retval = EmptyDict
    /\ cst = ColsStart
    /\ kf = NewKeyFile
    /\ err = ""
    /\ dpos = 0
    /\ row_count = 0
    /\ skipped_count = 0
    /\ skipped_msgs = << >>
    /\ str_col_widths = EmptyDict
    /\ last = NoCall
    /\ out = NoOutput

\* The module as imported: DATA_PARSE made, no method of it called yet.
KeyStart ==
    /\ PipelineStart
    /\ parser = DATA_PARSE
    /\ pcall = NoParseCall

\* The test helpers global_helper and cols_helper: a reader, no data file.
NoDataFile ==
    /\ datafile = [header |-> << >>, rows |-> << >>]
    /\ old_output = FALSE

-----------------------------------------------------------------------------
(* _read_globals on every global section of up to MaxGlobalRows rows *)

MaxGlobalRows == 5

GlobalRowsIn ==
    { <<"epsg_code", "4326">>, <<"dlatcol", "lat">>, <<"dloncol", " lon ">>,
      <<"dllcol", "pos">>, <<"dllre", PatLL>>, <<"dllcol", "">>, << >> }

InitGlobals ==
    /\ pc = "read_globals"
    /\ keyrows \in SeqsUpTo(GlobalRowsIn, MaxGlobalRows)
    /\ KeyStart
    /\ NoDataFile

NextGlobals == ReadGlobalsRow \/ FinishGlobals

SpecGlobals == InitGlobals /\ [][NextGlobals]_vars

\* The positional keys a global section set.
StrategyKeys(g) == (DOMAIN g) \cap {"dlatcol", "dloncol", "dllcol", "dllre"}

\* C5: every global section _read_globals accepts describes exactly one
\* complete positional strategy: dlatcol and dloncol without dllcol and
\* dllre, or dllcol and dllre without dlatcol and dloncol.
C5_OneCompleteStrategy ==
    pc = "read_cols" =>
        \/ StrategyKeys(kf.globals) = {"dlatcol", "dloncol"}
        \/ StrategyKeys(kf.globals) = {"dllcol", "dllre"}

-----------------------------------------------------------------------------
(* _read_cols on every column section of three full rows, IdCols columns *)

IdCols == 2

HeaderCellsIn == {"", "h1", "h2"}
IdCellsIn == {"", "a", "a1", "b_2", "1a", "a b", "abcdefghij", "abcdefghijk"}
TypeCellsIn == {"", "string", "integer"}

FullRows(name, cells, n) == {<<name>> \o c : c \in [1..n -> cells]}

InitIds ==
    /\ pc = "read_cols"
    /\ keyrows \in
         { <<h, i, d>> : h \in FullRows("csv_header", HeaderCellsIn, IdCols),
                         i \in FullRows("identifier", IdCellsIn, IdCols),
                         d \in FullRows("datatype", TypeCellsIn, IdCols) }
    /\ KeyStart
    /\ NoDataFile

NextCols == ReadColsRow \/ AssembleCols

SpecIds == InitIds /\ [][NextCols]_vars

\* The cells of the key file's row named nm, stripped, without the name.
RowNamed(nm) ==
    LET i == CHOOSE i \in 1..Len(keyrows) :
                 Len(keyrows[i]) > 0 /\ strip(keyrows[i][1]) = nm
    IN  Tail(StripRow(keyrows[i]))

ColsReturned == pc = "key_read"
ColsEnded == pc \in {"key_read", "failed"}

\* ^[A-Za-z][A-Za-z0-9_]{0,9}$
SpecIdentifier(id) ==
    /\ Len(id) >= 1 /\ Len(id) <= 10
    /\ Ch(id, 1) \in Letters
    /\ AllIn(id, Letters \cup Digits \cup {"_"})

\* C6: a column section whose non-empty identifiers all match
\* ^[A-Za-z][A-Za-z0-9_]{0,9}$ and have a valid datatype is accepted, and
\* each of them is a key of ids.
C6_IdentifierAccepted ==
    ColsEnded =>
        LET ids == RowNamed("identifier")
            types == RowNamed("datatype")
        IN  (\A j \in 1..Len(ids) :
                ids[j] # "" =>
                    SpecIdentifier(ids[j]) /\ types[j] \in {"string", "integer", "real"})
            => /\ ColsReturned
               /\ \A j \in 1..Len(ids) : ids[j] # "" => ids[j] \in DOMAIN kf.ids

\* C7: a column section with an identifier that has a space, a leading
\* digit or 11 or more characters fails with ValueError.
C7_IdentifierRejected ==
    ColsEnded =>
        LET ids == RowNamed("identifier")
        IN  (\E j \in 1..Len(ids) :
                /\ ids[j] # ""
                /\ \/ At(ids[j], " ") # {}
                   \/ Ch(ids[j], 1) \in Digits
                   \/ Len(ids[j]) >= 11)
            => pc = "failed" /\ err = "ValueError"

\* C8: a column section in which two positions declare the same non-empty
\* identifier fails with ValueError.
C8_DuplicateRejected ==
    ColsEnded =>
        LET ids == RowNamed("identifier")
        IN  (\E j1, j2 \in 1..Len(ids) :
                j1 # j2 /\ ids[j1] # "" /\ ids[j1] = ids[j2])
            => pc = "failed" /\ err = "ValueError"

-----------------------------------------------------------------------------
(* read_key.py: KeyFile.read as one call *)

RECURSIVE read_globals_from(_, _, _)
read_globals_from(rows, pos, rv) ==
    IF pos >= Len(rows)
    THEN [ctl |-> globals_finish(rv).ctl, retval |-> globals_finish(rv).retval,
          pos |-> pos]
    ELSE LET r == globals_row(rv, rows[pos + 1])
         IN  IF r.ctl = "continue" THEN read_globals_from(rows, pos + 1, r.retval)
             ELSE IF r.ctl = "break"
             THEN [ctl |-> globals_finish(r.retval).ctl,
                   retval |-> globals_finish(r.retval).retval, pos |-> pos + 1]
             ELSE [ctl |-> r.ctl, retval |-> r.retval, pos |-> pos + 1]

RECURSIVE read_cols_from(_, _, _)
read_cols_from(rows, pos, st) ==
    IF pos >= Len(rows) THEN cols_assemble(st)
    ELSE read_cols_from(rows, pos + 1, cols_row(st, rows[pos + 1], pos + 1))

KeyFile_read(rows) ==
    LET g == read_globals_from(rows, 0, EmptyDict)
        c == read_cols_from(rows, g.pos, ColsStart)
    IN  IF g.ctl # "return" THEN [ctl |-> g.ctl, kf |-> NewKeyFile]
        ELSE IF c.ctl # "return"
        THEN [ctl |-> c.ctl, kf |-> [NewKeyFile EXCEPT !.globals = g.retval]]
        ELSE [ctl |-> "return",
              kf |-> [globals |-> g.retval, hdr_to_id |-> c.hdr_to_id,
                      ids |-> c.ids, ids_order |-> c.ids_order]]

-----------------------------------------------------------------------------
(* parse_datatypes.py: ParseDatatype.  val is None or StrV(text). *)

\* A text that is no integer read as no value, not raised.
integer_lenient(self, val) ==
    IF val.t = "None" \/ val.v \in self.number_NA THEN None
    ELSE IF IntLiteral(val.v) THEN IntV(IntValue(val.v))
    ELSE None

integer(self, val) ==
    IF val.t = "None" \/ val.v \in self.number_NA THEN None
    ELSE IF IntLiteral(val.v) THEN IntV(IntValue(val.v))
    ELSE Raised

real(self, val) ==
    IF val.t = "None" \/ val.v \in self.number_NA THEN None
    ELSE IF RealLiteral(val.v) THEN RealV(RealValue(val.v))
    ELSE Raised

\* One NA list for numbers and strings alike.
string_shared_NA(self, val) ==
    IF val.t = "None" \/ val.v \in self.number_NA \cup self.string_NA THEN None
    ELSE StrV(val.v)

string(self, val) ==
    IF val.t = "None" \/ val.v \in self.string_NA THEN None
    ELSE StrV(val.v)

typed_val(self, typename, val) ==
    IF typename = "string" THEN string(self, val)
    ELSE IF typename = "real" THEN real(self, val)
    ELSE IF typename = "integer" THEN integer(self, val)
    ELSE Raised

-----------------------------------------------------------------------------
(* CSVToGeoJSON.py: process_data_row *)

\* dict.get(k) and dict.get(k, dflt) on a record of cells
get(rec, k) == IF k \in DOMAIN rec THEN StrV(rec[k]) ELSE None
get_or(rec, k, dflt) == IF k \in DOMAIN rec THEN StrV(rec[k]) ELSE StrV(dflt)

\* dict(zip(header, row)): a later column of the same name wins.
zip_record(header, row) ==
    LET n == IF Len(header) <= Len(row) THEN Len(header) ELSE Len(row)
    IN  [h \in {header[i] : i \in 1..n} |->
            row[CHOOSE i \in 1..n :
                    header[i] = h /\ \A i2 \in 1..n : header[i2] = h => i2 <= i]]

\* The first element of the sequence order that is in S.
FirstOf(order, S) ==
    order[CHOOSE i \in 1..Len(order) :
              order[i] \in S /\ \A i2 \in 1..(i - 1) : order[i2] \notin S]

\* m.groupdict() lists the groups in the order the pattern opens them.
groupdict_order(p) ==
    CASE p = PatLL -> <<"dlat", "dlon">>
      [] p = PatTag -> <<"cnt", "dlat", "dlon">>
      [] p = PatNoLat -> <<"dlon">>
      [] p = PatNoLon -> <<"dlat">>

KeyError == [kind |-> "KeyError"]

\* dlat read from the dlon group and dlon from the dlat group.
combined_position_swapped(m) ==
    [dlat |-> real(DATA_PARSE, m.groups["dlon"]),
     dlon |-> real(DATA_PARSE, m.groups["dlat"])]

\* lines 88-89: dlat and dlon from the match's named groups
combined_position(m) ==
    [dlat |-> real(DATA_PARSE, m.groups["dlat"]),
     dlon |-> real(DATA_PARSE, m.groups["dlon"])]

\* lines 120-121: dlat and dlon from the dlatcol and dloncol cells
direct_position(g, raw_record) ==
    [dlat |-> real(DATA_PARSE, get(raw_record, g["dlatcol"])),
     dlon |-> real(DATA_PARSE, get(raw_record, g["dloncol"]))]

\* The result: kind "Record" with the record, kind "Skip" with the message,
\* or the exception raised (kind "ValueError" with its message, "KeyError").
process_data_row(keyfile, raw_record0, line_num) ==
    LET raw_record == [k \in DOMAIN raw_record0 |-> strip(raw_record0[k])]
        g == keyfile.globals
        ids == keyfile.ids
        \* lines 141-154: the loop over kf.ids
        fields == {id \in DOMAIN ids :
                      id \notin {"dlat", "dlon"} /\ ids[id]["csv_header"] # ""}
        fieldval(id) == typed_val(DATA_PARSE, ids[id]["datatype"],
                                  get(raw_record, ids[id]["csv_header"]))
        badfields == {id \in fields : fieldval(id).t = "ValueError"}
        badfield == FirstOf(keyfile.ids_order, badfields)
        fill(rv) ==
            IF badfields # {}
            THEN [kind |-> "ValueError",
                  msg |-> [text |-> "does not yeild a valid datatype",
                           line |-> line_num,
                           c |-> ids[badfield]["csv_header"],
                           val |-> get_or(raw_record, ids[badfield]["csv_header"], ""),
                           datatype |-> ids[badfield]["datatype"]]]
            ELSE [kind |-> "Record",
                  record |-> [k \in (DOMAIN rv) \cup fields |->
                                 IF k \in fields THEN fieldval(k) ELSE rv[k]]]
    IN  IF "dllcol" \notin DOMAIN g THEN KeyError
        ELSE IF g["dllcol"] # "" THEN
            IF "dllre" \notin DOMAIN g THEN KeyError
            ELSE
            LET pat == g["dllre"]
                m == re_match(pat, get_or(raw_record, g["dllcol"], "").v)
                skip(text) ==
                    [kind |-> "Skip",
                     msg |-> [text |-> text, line |-> line_num, c |-> g["dllcol"],
                              val |-> get(raw_record, g["dllcol"]), pat |-> pat]]
                dlat == combined_position(m).dlat
                dlon == combined_position(m).dlon
                others == {k \in DOMAIN m.groups :
                              k \notin {"dlat", "dlon"} /\ k \in DOMAIN ids}
                capture(k) == typed_val(DATA_PARSE, ids[k]["datatype"], m.groups[k])
                badcaps == {k \in others : capture(k).t = "ValueError"}
                badcap == FirstOf(groupdict_order(pat), badcaps)
            IN  IF ~m.matched THEN skip("does not matches the pattern")
                ELSE IF dlat.t = "ValueError" \/ dlon.t = "ValueError"
                     THEN skip("does not yeild a valid lat/lon")
                ELSE IF dlat.t = "None" \/ dlon.t = "None"
                     THEN skip("yeilds a blank lat/lon")
                ELSE IF badcaps # {}
                     THEN [kind |-> "ValueError",
                           msg |-> [text |-> "does not yeild a valid k of datatype",
                                    line |-> line_num, c |-> g["dllcol"],
                                    val |-> get_or(raw_record, g["dllcol"], ""),
                                    k |-> badcap,
                                    datatype |-> ids[badcap]["datatype"],
                                    pat |-> pat]]
                ELSE fill([k \in {"dlat", "dlon"} \cup others |->
                              IF k = "dlat" THEN dlat
                              ELSE IF k = "dlon" THEN dlon
                              ELSE capture(k)])
        ELSE
            IF "dlatcol" \notin DOMAIN g \/ "dloncol" \notin DOMAIN g THEN KeyError
            ELSE
            LET dlat == direct_position(g, raw_record).dlat
                dlon == direct_position(g, raw_record).dlon
                skip(lat, lon) ==
                    [kind |-> "Skip",
                     msg |-> [text |-> "does not yeild a valid lat/lon",
                              line |-> line_num,
                              dlatcol |-> g["dlatcol"],
                              dloncol |-> g["dlatcol"],
                              dlatval |-> lat, dlonval |-> lon]]
            IN  IF dlat.t = "ValueError" \/ dlon.t = "ValueError"
                THEN skip(get_or(raw_record, g["dlatcol"], ""),
                          get_or(raw_record, g["dloncol"], ""))
                ELSE IF dlat.t = "None" \/ dlon.t = "None"
                THEN skip(get(raw_record, g["dlatcol"]), get(raw_record, g["dloncol"]))
                ELSE fill([k \in {"dlat", "dlon"} |-> IF k = "dlat" THEN dlat ELSE dlon])

-----------------------------------------------------------------------------
(* CSVToGeoJSON.py: check_cols, make_output, add_schema, add_data, main *)

StringIds(ids) == {k \in DOMAIN ids : ids[k]["datatype"] = "string"}

\* main, lines 300-301: kf = read_key.KeyFile(); kf.read(args.keyfile, ...)
ReadKey ==
    /\ pc = "main"
    /\ LET r == KeyFile_read(keyrows)
       IN  /\ kf' = r.kf
           /\ pc' = IF r.ctl = "return" THEN "check_cols" ELSE "failed"
           /\ err' = IF r.ctl = "return" THEN "" ELSE r.ctl
    /\ UNCHANGED <<parsevars, keyrows, kpos, retval, cst, datavars>>

\* check_cols up to the loop over the rows: the locals, the header row and
\* the check that it has every expected column.
CheckColsOpen ==
    /\ pc = "check_cols"
    /\ str_col_widths' = [k \in StringIds(kf.ids) |-> 0]
    /\ skipped_count' = 0
    /\ row_count' = 0
    /\ skipped_msgs' = << >>
    /\ dpos' = 0
    /\ LET header == datafile.header
           present == {header[i] : i \in 1..Len(header)}
       IN  IF \E h \in DOMAIN kf.hdr_to_id : h \notin present
           THEN pc' = "failed" /\ err' = "ValueError"
           ELSE pc' = "check_rows" /\ err' = ""
    /\ UNCHANGED <<parsevars, keyvars, datafile, old_output, last, out>>

\* len(record.get(sc, '')) for each string column: the new widths, or
\* a TypeError when a value is None.
new_widths(widths, record) ==
    LET len(sc) == IF sc \in DOMAIN record THEN Len(record[sc].v) ELSE 0
    IN  IF \E sc \in DOMAIN widths : sc \in DOMAIN record /\ record[sc].t = "None"
        THEN [ctl |-> "TypeError", widths |-> widths]
        ELSE [ctl |-> "ok",
              widths |-> [sc \in DOMAIN widths |-> Max2(widths[sc], len(sc))]]

\* One iteration of check_cols' loop over the data rows.
CheckColsRow ==
    /\ pc = "check_rows"
    /\ dpos < Len(datafile.rows)
    /\ LET raw_record == zip_record(datafile.header, datafile.rows[dpos + 1])
           r == process_data_row(kf, raw_record, dpos + 2)
           w == new_widths(str_col_widths, r.record)
       IN  /\ dpos' = dpos + 1
           /\ row_count' = row_count + 1
           /\ last' = [raw |-> raw_record, line |-> dpos + 2, res |-> r]
           /\ IF r.kind \in {"ValueError", "KeyError"}
              THEN /\ pc' = "failed" /\ err' = r.kind
                   /\ UNCHANGED <<skipped_count, skipped_msgs, str_col_widths>>
              ELSE IF r.kind = "Skip"
              THEN /\ skipped_msgs' = Append(skipped_msgs, r.msg)
                   /\ skipped_count' = skipped_count + 1
                   /\ UNCHANGED <<pc, err, str_col_widths>>
              ELSE IF w.ctl = "TypeError"
              THEN /\ pc' = "failed" /\ err' = "TypeError"
                   /\ UNCHANGED <<skipped_count, skipped_msgs, str_col_widths>>
              ELSE /\ str_col_widths' = w.widths
                   /\ UNCHANGED <<pc, err, skipped_count, skipped_msgs>>
    /\ UNCHANGED <<parsevars, keyvars, datafile, old_output, out>>

\* The comparison with >= in place of >.
over_threshold_inclusive(skipped, rows, maxskippct) ==
    IF IsFinite(maxskippct)
    THEN 100 * skipped * Pow10(maxskippct.k) >= maxskippct.n * rows
    ELSE maxskippct.n < 0

\* (100.0*skipped_count/row_count) > kf.globals['maxskippct'], for
\* row_count > 0 and maxskippct = n / 10^k
over_threshold(skipped, rows, maxskippct) ==
    IF IsFinite(maxskippct)
    THEN 100 * skipped * Pow10(maxskippct.k) > maxskippct.n * rows
    ELSE maxskippct.n < 0

\* check_cols after the loop: the threshold, the return.
CheckColsFinish ==
    /\ pc = "check_rows"
    /\ dpos = Len(datafile.rows)
    /\ IF row_count = 0
       THEN pc' = "failed" /\ err' = "ZeroDivisionError"
       ELSE IF over_threshold(skipped_count, row_count, kf.globals["maxskippct"])
       THEN pc' = "failed" /\ err' = "RuntimeError"
       ELSE pc' = "make_output" /\ err' = ""
    /\ UNCHANGED <<parsevars, keyvars, datavars>>

\* make_output called once the key file is read, before check_cols.
MakeOutputBeforeCheck ==
    /\ pc = "check_cols"
    /\ ~out.created
    /\ old_output' = FALSE
    /\ out' = [out EXCEPT !.created = TRUE]
    /\ UNCHANGED <<parsevars, pc, err, keyvars, datafile, dpos, row_count, skipped_count,
                   skipped_msgs, str_col_widths, last>>

\* make_output: an existing output is deleted, the data source created.
MakeOutput ==
    /\ pc = "make_output"
    /\ old_output' = FALSE
    /\ out' = [out EXCEPT !.created = TRUE]
    /\ pc' = "add_schema"
    /\ UNCHANGED <<parsevars, err, keyvars, datafile, dpos, row_count, skipped_count,
                   skipped_msgs, str_col_widths, last>>

\* add_schema: one field per identifier, a string's width padded by 5.
StringPad == 5
AddSchema ==
    /\ pc = "add_schema"
    /\ out' = [out EXCEPT !.fields =
                 [c \in DOMAIN kf.ids |->
                    IF kf.ids[c]["datatype"] = "string"
                    THEN [type |-> "string", width |-> str_col_widths[c] + StringPad]
                    ELSE [type |-> kf.ids[c]["datatype"]]]]
    /\ dpos' = 0
    /\ pc' = "add_data"
    /\ UNCHANGED <<parsevars, err, keyvars, datafile, old_output, row_count, skipped_count,
                   skipped_msgs, str_col_widths, last>>

\* One iteration of add_data's loop over the data rows, the row being
\* line line_num of the file.
add_data_row(line_num) ==
    /\ pc = "add_data"
    /\ dpos < Len(datafile.rows)
    /\ LET raw_record == zip_record(datafile.header, datafile.rows[dpos + 1])
           r == process_data_row(kf, raw_record, line_num)
       IN  /\ dpos' = dpos + 1
           /\ last' = [raw |-> raw_record, line |-> line_num, res |-> r]
           /\ IF r.kind \in {"ValueError", "KeyError"}
              THEN pc' = "failed" /\ err' = r.kind /\ out' = out
              ELSE IF r.kind = "Skip"
              THEN UNCHANGED <<pc, err, out>>
              ELSE IF \E c \in DOMAIN kf.ids : c \notin DOMAIN r.record
              THEN pc' = "failed" /\ err' = "KeyError" /\ out' = out
              ELSE /\ out' = [out EXCEPT !.features = Append(@,
                                 [fields |-> [c \in DOMAIN kf.ids |-> r.record[c]],
                                  point |-> <<r.record["dlon"], r.record["dlat"]>>,
                                  line |-> line_num])]
                   /\ UNCHANGED <<pc, err>>
    /\ UNCHANGED <<parsevars, keyvars, datafile, old_output, row_count, skipped_count,
                   skipped_msgs, str_col_widths>>

\* The rows numbered from 1 at the first data row, the header not counted.
AddDataRowByIndex == add_data_row(dpos + 1)

\* reader.line_num: the header is line 1, the first data row line 2.
AddDataRow == add_data_row(dpos + 2)

AddDataEnd ==
    /\ pc = "add_data"
    /\ dpos = Len(datafile.rows)
    /\ pc' = "done"
    /\ UNCHANGED <<parsevars, err, keyvars, datavars>>

-----------------------------------------------------------------------------
(* main on a few key files, each with every data file of up to MaxRows    *)
(* rows drawn from rows that exercise it                                    *)

MaxRows == 3

\* dllcol/dllre with the pattern of two captures; skips of up to 50%.
CombinedRun ==
    [key |-> << <<"epsg_code", "4326">>, <<"dllcol", "pos">>, <<"dllre", PatLL>>,
                <<"maxskippct", "50">>, <<"">>,
                <<"csv_header", "pos", "n", "name">>,
                <<"identifier", "", "cnt", "name">>,
                <<"datatype", "", "integer", "string">> >>,
     header |-> <<"pos", "n", "name">>,
     rows |-> { <<"3.5,-7", "5", "ab">>, <<"bogus", "x", "abc">>,
                <<" 3,7 ", "x", "a">>, <<"-,7", "", "">>, <<"3,7", "5">> }]

\* dllcol/dllre with a third capture that is a declared identifier; no
\* maxskippct row.
TagRun ==
    [key |-> << <<"dllre", PatTag>>, <<"dllcol", "pos">>, <<"epsg_code", "4326">>,
                << >>,
                <<"csv_header", "pos", "", "name">>,
                <<"identifier", "", "cnt", "name">>,
                <<"datatype", "", "integer", "string">> >>,
     header |-> <<"pos", "name">>,
     rows |-> { <<"12;3,7", "abc">>, <<"x;3,7", "ab">>, <<"1;,7", "ab">>,
                <<"1;3,", "ab">>, <<"nomatch", "">> }]

\* dlatcol/dloncol.
DirectRun ==
    [key |-> << <<"epsg_code", "4326">>, <<"dlatcol", "latitude">>,
                <<"dloncol", "longitude">>, <<"maxskippct", "50">>, <<"">>,
                <<"csv_header", "latitude", "longitude", "n">>,
                <<"identifier", "", "", "cnt">>,
                <<"datatype", "", "", "integer">> >>,
     header |-> <<"latitude", "longitude", "n">>,
     rows |-> { <<"37.5", "-122.3", "5">>, <<"", "-122.3", "5">>,
                <<"abc", "1", "x">>, <<"1", "2", "x">> }]

\* A key file that declares both strategies.
BadKeyRun ==
    [key |-> << <<"epsg_code", "4326">>, <<"dlatcol", "latitude">>,
                <<"dloncol", "longitude">>, <<"dllcol", "pos">>,
                <<"dllre", PatLL>>, <<"">>,
                <<"csv_header", "pos">>, <<"identifier", "pos">>,
                <<"datatype", "string">> >>,
     header |-> <<"pos">>,
     rows |-> { <<"3,7">> }]

\* dllcol/dllre with maxskippct given as nan.
NanRun ==
    [key |-> << <<"epsg_code", "4326">>, <<"dllcol", "pos">>, <<"dllre", PatLL>>,
                <<"maxskippct", "nan">>, <<"">>,
                <<"csv_header", "pos", "name">>,
                <<"identifier", "", "name">>,
                <<"datatype", "", "string">> >>,
     header |-> <<"pos", "name">>,
     rows |-> { <<"bogus", "ab">>, <<"-,7", "">>, <<"3,7", "a">> }]

\* dllcol/dllre with the pattern of two captures, and an identifier cnt that
\* has no csv_header: no cell and no capture gives it a value.
GapRun ==
    [key |-> << <<"epsg_code", "4326">>, <<"dllcol", "pos">>, <<"dllre", PatLL>>,
                <<"maxskippct", "50">>, <<"">>,
                <<"csv_header", "pos", "", "name">>,
                <<"identifier", "", "cnt", "name">>,
                <<"datatype", "", "integer", "string">> >>,
     header |-> <<"pos", "name">>,
     rows |-> { <<"3,7", "ab">>, <<"bogus", "x">> }]

Runs == {CombinedRun, TagRun, DirectRun, BadKeyRun, NanRun, GapRun}

Init ==
    /\ pc = "main"
    /\ KeyStart
    /\ old_output \in BOOLEAN
    /\ \E run \in Runs :
          /\ keyrows = run.key
          /\ datafile \in {[header |-> run.header, rows |-> r] :
                              r \in SeqsUpTo(run.rows, MaxRows)}

Next ==
    \/ ReadKey
    \/ CheckColsOpen
    \/ CheckColsRow
    \/ CheckColsFinish
    \/ MakeOutput
    \/ AddSchema
    \/ AddDataRow
    \/ AddDataEnd

Spec == Init /\ [][Next]_vars

-----------------------------------------------------------------------------
(* Claims about process_data_row and check_cols *)

Called == last.res.kind # "none"
DirectStrategy(g) == StrategyKeys(g) = {"dlatcol", "dloncol"}
CombinedStrategy(g) == {"dllcol", "dllre"} \subseteq DOMAIN g

\* The text is a real literal (and so no NA sentinel).
ParsesAsReal(val) == val.t = "str" /\ RealLiteral(val.v)
RealOf(val) == RealV(RealValue(val.v))

\* The cell of the row under the header h, stripped; None if the row has none.
Cell(h) == IF h \in DOMAIN last.raw THEN StrV(strip(last.raw[h])) ELSE None

\* C1: under the direct-column strategy (dlatcol and dloncol set, dllcol and
\* dllre not), for a row whose dlatcol and dloncol cells both parse as reals
\* process_data_row returns a Record with those values as dlat and dlon.
C1_DirectRecord ==
    (/\ Called
     /\ DirectStrategy(kf.globals)
     /\ ParsesAsReal(Cell(kf.globals["dlatcol"]))
     /\ ParsesAsReal(Cell(kf.globals["dloncol"])))
    => /\ last.res.kind = "Record"
       /\ last.res.record["dlat"] = RealOf(Cell(kf.globals["dlatcol"]))
       /\ last.res.record["dlon"] = RealOf(Cell(kf.globals["dloncol"]))

\* The match of dllre on the dllcol cell ('' if the row has none).
CellMatch ==
    LET c == Cell(kf.globals["dllcol"])
    IN  re_match(kf.globals["dllre"], IF c.t = "None" THEN "" ELSE c.v)

\* dllre matches and both captures parse as reals.
PositionUsable ==
    /\ CellMatch.matched
    /\ ParsesAsReal(CellMatch.groups["dlat"])
    /\ ParsesAsReal(CellMatch.groups["dlon"])

\* Some declared non-position field of the row fails conversion: a cell read
\* through a non-empty csv_header, or another named capture of dllre that is
\* a declared identifier.
Converts(datatype, val) ==
    CASE datatype = "string" -> TRUE
      [] datatype = "integer" ->
            val.t = "None" \/ val.v \in DATA_PARSE.number_NA \/ IntLiteral(val.v)
      [] datatype = "real" ->
            val.t = "None" \/ val.v \in DATA_PARSE.number_NA \/ RealLiteral(val.v)
      [] OTHER -> FALSE
FieldFails ==
    \/ \E id \in DOMAIN kf.ids :
          /\ id \notin {"dlat", "dlon"}
          /\ kf.ids[id]["csv_header"] # ""
          /\ ~Converts(kf.ids[id]["datatype"], Cell(kf.ids[id]["csv_header"]))
    \/ \E k \in DOMAIN CellMatch.groups :
          /\ k \notin {"dlat", "dlon"}
          /\ k \in DOMAIN kf.ids
          /\ ~Converts(kf.ids[k]["datatype"], CellMatch.groups[k])

RecordWithCaptures ==
    /\ last.res.kind = "Record"
    /\ last.res.record["dlat"] = RealOf(CellMatch.groups["dlat"])
    /\ last.res.record["dlon"] = RealOf(CellMatch.groups["dlon"])

\* C2 as stated: under the combined-column strategy process_data_row returns
\* a Record with dlat and dlon from the named captures whenever dllre matches
\* and both captures parse as reals, and a LocationSkip otherwise.
C2_CombinedAsStated ==
    (Called /\ CombinedStrategy(kf.globals)) =>
        IF PositionUsable THEN RecordWithCaptures ELSE last.res.kind = "Skip"

\* C2 amended: ... returns a LocationSkip whenever the pattern does not
\* match, a capture does not parse as a real or resolves to an NA
\* sentinel/None; when dllre matches and both captures parse as reals it
\* returns a Record with dlat and dlon from the captures, unless a declared
\* non-position field fails conversion: then it raises the fatal ValueError.
C2_CombinedRecordOrSkip ==
    (Called /\ CombinedStrategy(kf.globals)) =>
        IF ~PositionUsable THEN last.res.kind = "Skip"
        ELSE IF FieldFails THEN last.res.kind = "ValueError"
        ELSE RecordWithCaptures

C2_Witness ==
    /\ Called /\ CombinedStrategy(kf.globals)
    /\ PositionUsable /\ ~FieldFails
    /\ last.res.kind = "Record"
    /\ last.res.record["dlat"] = RealV([n |-> 35, k |-> 1])
    /\ last.res.record["dlon"] = RealV([n |-> -7, k |-> 0])

\* The validation scan has read every data row, none of them fatal.
ScanDone == pc = "check_rows" /\ dpos = Len(datafile.rows)

\* What process_data_row returns for the i-th data row of the file.
RowResult(i) ==
    process_data_row(kf, zip_record(datafile.header, datafile.rows[i]), i + 1)

SkipsIn == Cardinality({i \in 1..Len(datafile.rows) : RowResult(i).kind = "Skip"})

\* 100*S/N > m for a real m as the code's floating point compares them:
\* false for nan.
SkipPctExceeds(S, N, m) ==
    IF IsFinite(m) THEN 100 * S * Pow10(m.k) > m.n * N ELSE m.n < 0

\* C3: after a full validation scan of N >= 1 data rows of which S were
\* LocationSkips, check_cols fails with the threshold error (RuntimeError)
\* if and only if 100*S/N > maxskippct, and otherwise returns the table of
\* string widths it has built; 100*S/N = maxskippct passes.  maxskippct
\* is the exact decimal n/10^k, so 100*S/N > n/10^k is 100*S*10^k > n*N.
C3_SkipBudget ==
    [][ (ScanDone /\ Len(datafile.rows) >= 1) =>
            LET N == Len(datafile.rows)
                S == SkipsIn
                m == kf.globals["maxskippct"]
            IN  /\ row_count = N
                /\ skipped_count = S
                /\ IF SkipPctExceeds(S, N, m)
                   THEN pc' = "failed" /\ err' = "RuntimeError"
                   ELSE /\ pc' = "make_output" /\ err' = ""
                        /\ str_col_widths' = str_col_widths ]_vars

\* Half of two rows skipped with maxskippct = 50: the scan passes.
C3_Witness ==
    /\ pc = "make_output"
    /\ row_count = 2 /\ skipped_count = 1
    /\ kf.globals["maxskippct"] = [n |-> 50, k |-> 0]
    /\ str_col_widths = [name |-> 2]

\* C4: a data file with a valid header row and no data rows ends the
\* validation pass in the threshold failure (RuntimeError, as for an exceeded
\* skip budget), not in a ZeroDivisionError.
C4_ZeroRowsThreshold ==
    (/\ Len(datafile.rows) = 0
     /\ KeyFile_read(keyrows).ctl = "return"
     /\ \A h \in DOMAIN KeyFile_read(keyrows).kf.hdr_to_id :
            \E i \in 1..Len(datafile.header) : datafile.header[i] = h
     /\ pc \notin {"main", "check_cols", "check_rows"})
    => pc = "failed" /\ err = "RuntimeError"

-----------------------------------------------------------------------------
(* KeyFile.read on key files with both sections, in every order of the rows
   of each section, with short rows, long rows and all-blank rows *)

MaxColRows == 4

KeyGlobalRowsIn ==
    { <<"epsg_code", "4326">>, <<" dllcol", "pos ">>, <<"dllre", PatLL>> }

KeyColRowsIn ==
    { <<"csv_header", "pos", "n">>,
      <<"identifier", "", "cnt", "name">>,
      <<"identifier", "", "cnt", "cnt">>,
      <<"datatype", "", "integer", "string">>,
      <<"note", "", "", "", "x">>,
      <<" ", "">> }

SectionEnd == <<"">>

\* The name of a row: its first cell, stripped ('' for an all-blank row).
RowName(row) == IF Len(row) = 0 THEN "" ELSE strip(row[1])
DistinctNames(rows) ==
    \A i, j \in 1..Len(rows) : RowName(rows[i]) = RowName(rows[j]) => i = j

InitKey ==
    /\ pc = "read_globals"
    /\ \E g \in SeqsUpTo(KeyGlobalRowsIn, Cardinality(KeyGlobalRowsIn)),
          c \in SeqsUpTo(KeyColRowsIn, MaxColRows) :
          /\ DistinctNames(g)
          /\ DistinctNames(c)
          /\ keyrows = g \o <<SectionEnd>> \o c
    /\ KeyStart
    /\ NoDataFile

NextKey == ReadGlobalsRow \/ FinishGlobals \/ ReadColsRow \/ AssembleCols

SpecKey == InitKey /\ [][NextKey]_vars

AllBlank(row) == \A j \in 1..Len(row) : strip(row[j]) = ""

\* The rows before the first row that ends the global section, and the rows
\* after it.
GlobalEnd(rows) ==
    CHOOSE i \in 1..Len(rows) :
        /\ RowName(rows[i]) = ""
        /\ \A i2 \in 1..(i - 1) : RowName(rows[i2]) # ""
GlobalSection(rows) == SubSeq(rows, 1, GlobalEnd(rows) - 1)
ColumnSection(rows) == SubSeq(rows, GlobalEnd(rows) + 1, Len(rows))

Permuted(rows, p) == [i \in 1..Len(rows) |-> rows[p[i]]]

\* Reading these rows succeeds with the globals, hdr_to_id and ids of kf.
ReadsAsKf(rows) ==
    LET r == KeyFile_read(rows)
    IN  /\ r.ctl = "return"
        /\ r.kf.globals = kf.globals
        /\ r.kf.hdr_to_id = kf.hdr_to_id
        /\ r.kf.ids = kf.ids

NonBlank(rows, n) == {i \in 1..n : ~AllBlank(rows[i])}

\* The cell of a row at grid position j (1 is the name), '' beyond its end.
CellAt(row, j) == IF j <= Len(row) THEN strip(row[j]) ELSE ""

\* C10: while the column section is read, after each row every column of the
\* grid has as many cells as non-blank rows were read so far; and once it is
\* read, for every non-blank row a and every position j with a non-empty
\* identifier, ids[identifier_j][a] is row a's cell at j, or '' when row a is
\* shorter, and hdr_to_id has an entry exactly for the positions whose
\* csv_header and identifier cells are both non-empty.
C10_RaggedGrid ==
    LET c == ColumnSection(keyrows)
        read == kpos - GlobalEnd(keyrows)
        idrow == c[CHOOSE i \in 1..Len(c) : RowName(c[i]) = "identifier"]
        hdrrow == c[CHOOSE i \in 1..Len(c) : RowName(c[i]) = "csv_header"]
        declared == {j \in 2..Len(idrow) : CellAt(idrow, j) # ""}
    IN  /\ pc = "read_cols" =>
              \A j \in 1..Len(cst.colgrid) :
                  Len(cst.colgrid[j]) = Cardinality(NonBlank(c, read))
        /\ pc = "key_read" =>
              /\ \A a \in NonBlank(c, Len(c)) : \A j \in declared :
                    kf.ids[CellAt(idrow, j)][RowName(c[a])] = CellAt(c[a], j)
              /\ DOMAIN kf.hdr_to_id =
                    {CellAt(hdrrow, j) : j \in {j2 \in declared : CellAt(hdrrow, j2) # ""}}

-----------------------------------------------------------------------------
(* _read_globals on global sections with empty value cells, missing value
   cells and maxskippct values in, on and outside the limits *)

MaxSettingRows == 3

SettingRowsIn ==
    { <<"epsg_code", "4326">>, <<"epsg_code", "">>, <<"epsg_code">>,
      <<"maxskippct", "12.5">>, <<"maxskippct", " ">>, <<"maxskippct", "99">>,
      <<"maxskippct", "99.5">>, <<"maxskippct", "nan">>,
      <<"encoding", "latin1">>, <<"encoding", "">>, <<"dllcol", "">> }

InitSettings ==
    /\ pc = "read_globals"
    /\ keyrows \in SeqsUpTo(SettingRowsIn, MaxSettingRows)
    /\ KeyStart
    /\ NoDataFile

SpecSettings == InitSettings /\ [][NextGlobals]_vars

GlobalsReturned == pc = "read_cols"
GlobalsEnded == pc \in {"read_cols", "failed"}

\* The value cell of a row, stripped; '' when the row has none.
ValueCell(row) == IF Len(row) < 2 THEN "" ELSE strip(row[2])

\* The rows of the section whose value cell is not empty.
RECURSIVE WithValue(_)
WithValue(rows) ==
    IF Len(rows) = 0 THEN << >>
    ELSE IF ValueCell(Head(rows)) = "" THEN WithValue(Tail(rows))
    ELSE <<Head(rows)>> \o WithValue(Tail(rows))

\* Some row of the section gives this key a non-empty value.
Given(key) ==
    \E i \in 1..Len(keyrows) :
        RowName(keyrows[i]) = key /\ ValueCell(keyrows[i]) # ""

\* C11: every result of _read_globals has an integer epsg_code, an encoding
\* and a maxskippct with 0 <= maxskippct <= 99; a key with an empty value
\* cell is treated as if its row were absent, so encoding is 'utf-8' and
\* maxskippct is 0.0 when the key is absent or empty; a missing or empty
\* epsg_code is rejected with ValueError.
C11_GlobalSettings ==
    GlobalsEnded =>
        LET g == kf.globals
            absent == read_globals_from(WithValue(keyrows), 0, EmptyDict)
        IN  /\ GlobalsReturned =>
                  /\ {"epsg_code", "encoding", "maxskippct"} \subseteq DOMAIN g
                  /\ g["epsg_code"] \in Int
                  /\ IsFinite(g["maxskippct"])
                  /\ ~RealLtInt(g["maxskippct"], 0)
                  /\ ~RealGtInt(g["maxskippct"], 99)
                  /\ ~Given("encoding") => g["encoding"] = "utf-8"
                  /\ ~Given("maxskippct") => g["maxskippct"] = [n |-> 0, k |-> 0]
            /\ IF GlobalsReturned
               THEN absent.ctl = "return" /\ absent.retval = g
               ELSE absent.ctl = err
            /\ ~Given("epsg_code") => pc = "failed" /\ err = "ValueError"

-----------------------------------------------------------------------------
(* _read_cols on column sections that lack a required row or declare a blank
   or unknown datatype *)

MaxTypeRows == 3

DatatypeCellsIn == {"", "string", "integer", "real", "bogus"}

TypeRowsIn ==
    { <<"csv_header", "h1", "h2">>, <<"note", "x">>,
      <<"identifier", "a1", "b_2">>, <<"identifier", "a1", "a1">>,
      <<"identifier", "abcdefghijk", "">> }
    \cup FullRows("datatype", DatatypeCellsIn, IdCols)

InitTypes ==
    /\ pc = "read_cols"
    /\ \E c \in SeqsUpTo(TypeRowsIn, MaxTypeRows) :
          DistinctNames(c) /\ keyrows = c
    /\ KeyStart
    /\ NoDataFile

SpecTypes == InitTypes /\ [][NextCols]_vars

HasRow(nm) == \E i \in 1..Len(keyrows) : RowName(keyrows[i]) = nm
TheRow(nm) == keyrows[CHOOSE i \in 1..Len(keyrows) : RowName(keyrows[i]) = nm]
Datatypes == {"string", "integer", "real"}

\* C12: after _read_cols succeeds every identifier in ids has a datatype that
\* is one of string, integer, real; a column section without the csv_header,
\* the identifier or the datatype row, or one that declares an identifier
\* whose datatype cell is blank or any other value, fails with ValueError.
C12_DatatypeInvariant ==
    ColsEnded =>
        LET complete == HasRow("csv_header") /\ HasRow("identifier") /\ HasRow("datatype")
            idrow == TheRow("identifier")
            typerow == TheRow("datatype")
        IN  /\ ColsReturned =>
                  \A id \in DOMAIN kf.ids : kf.ids[id]["datatype"] \in Datatypes
            /\ ~complete => pc = "failed" /\ err = "ValueError"
            /\ (/\ complete
                /\ \E j \in 2..Len(idrow) :
                      CellAt(idrow, j) # "" /\ CellAt(typerow, j) \notin Datatypes)
               => pc = "failed" /\ err = "ValueError"

-----------------------------------------------------------------------------
(* Claims about main: the order of validation and output *)

KeyParsed == KeyFile_read(keyrows).ctl = "return"

HeaderComplete ==
    \A h \in DOMAIN kf.hdr_to_id :
        \E i \in 1..Len(datafile.header) : datafile.header[i] = h

\* The key file was parsed, and the validation pass has scanned every row of
\* the data file, none fatal, with the skips within maxskippct.
Validated ==
    /\ KeyParsed
    /\ kf = KeyFile_read(keyrows).kf
    /\ HeaderComplete
    /\ row_count = Len(datafile.rows)
    /\ \A i \in 1..Len(datafile.rows) : RowResult(i).kind \in {"Record", "Skip"}
    /\ skipped_count = SkipsIn
    /\ ~SkipPctExceeds(SkipsIn, Len(datafile.rows), kf.globals["maxskippct"])

\* C13: in every run of main a step that creates the output data source,
\* deletes an existing output or writes to the output is taken only after the
\* key file was parsed and the validation pass scanned the whole data file
\* within the skip budget; so a run with a schema error, a fatal conversion
\* error in the validation pass or a threshold error has no output effect.
C13_NoOutputBeforeValidation ==
    [][ (out' # out \/ old_output' # old_output) => Validated ]_vars

\* The output has been created, and no earlier output is left, after a scan
\* of two rows of which one was skipped.
C13_Witness ==
    /\ pc = "add_schema"
    /\ out.created /\ ~old_output
    /\ row_count = 2 /\ skipped_count = 1
    /\ Validated

\* The extraction pass has processed a row: last is its call.
Extracting == out.created /\ pc \in {"add_data", "done", "failed"} /\ dpos >= 1

Validating == ~out.created /\ pc \in {"check_rows", "make_output", "failed"} /\ Called

\* The row's position is usable and one of its declared non-position fields
\* does not convert, under either strategy.
UsableButFieldFails ==
    IF CombinedStrategy(kf.globals) THEN PositionUsable /\ FieldFails
    ELSE /\ DirectStrategy(kf.globals)
         /\ ParsesAsReal(Cell(kf.globals["dlatcol"]))
         /\ ParsesAsReal(Cell(kf.globals["dloncol"]))
         /\ \E id \in DOMAIN kf.ids :
               /\ id \notin {"dlat", "dlon"}
               /\ kf.ids[id]["csv_header"] # ""
               /\ ~Converts(kf.ids[id]["datatype"], Cell(kf.ids[id]["csv_header"]))

ValidationEnded == pc \notin {"main", "check_cols", "check_rows"}

\* C16: for every key file the parser accepts, whatever maxskippct it sets, a
\* data file with at least one row in which every row is a LocationSkip is
\* rejected by the validation pass with the threshold error.
C16_AllSkippedRejected ==
    (/\ KeyParsed
     /\ ValidationEnded
     /\ Len(datafile.rows) >= 1
     /\ \A i \in 1..Len(datafile.rows) : RowResult(i).kind = "Skip")
    => pc = "failed" /\ err = "RuntimeError"

\* An identifier is declared with an empty csv_header.
EmptyHeaderId == \E id \in DOMAIN kf.ids : kf.ids[id]["csv_header"] = ""

RecordsUpTo(n) == Cardinality({i \in 1..n : RowResult(i).kind = "Record"})

\* C18: for every accepted schema, one that declares an identifier with an
\* empty csv_header included, the extraction pass does not fail, and after
\* each of its rows the sink holds exactly one feature for each row so far for
\* which process_data_row returns a Record, none for a LocationSkip row.
C18_ExtractionEmitsEveryRecord ==
    (KeyParsed /\ Extracting) =>
        /\ pc # "failed"
        /\ Len(out.features) = RecordsUpTo(dpos)

SetMax(S) == IF S = {} THEN 0 ELSE CHOOSE x \in S : \A y \in S : y <= x

\* The character length a Record contributes for the field sc: 0 when the
\* field is absent or None.
FieldLen(record, sc) ==
    IF sc \in DOMAIN record /\ record[sc].t = "str" THEN Len(record[sc].v) ELSE 0

\* The widest value of each string-typed identifier over the rows that are
\* Records.
WidthTable ==
    [sc \in StringIds(kf.ids) |->
        SetMax({FieldLen(RowResult(i).record, sc) :
                   i \in {j \in 1..Len(datafile.rows) : RowResult(j).kind = "Record"}})]

\* Every row is a Record or a skip, and the skips are within maxskippct.
RowsAcceptable ==
    /\ Len(datafile.rows) >= 1
    /\ \A i \in 1..Len(datafile.rows) : RowResult(i).kind \in {"Record", "Skip"}
    /\ ~SkipPctExceeds(SkipsIn, Len(datafile.rows), kf.globals["maxskippct"])

\* C19: a validation pass over rows that are all Records or skips, the skips
\* within the budget, succeeds, and the table it returns has exactly the
\* string-typed identifiers as keys and for each the maximum character length
\* of that field over the rows that are Records (0 when there is none); a
\* Record in which a string field is None, as in a row shorter than the
\* header, contributes length 0.
C19_StringWidthTable ==
    (KeyParsed /\ ValidationEnded /\ HeaderComplete /\ RowsAcceptable) =>
        /\ err # "TypeError"
        /\ out.created \/ pc = "make_output"
        /\ str_col_widths = WidthTable

\* The row's position is unusable under the strategy of the key file: dllre
\* does not match or a capture is no real, or the dlatcol or dloncol cell is
\* no real.
PositionUnusable ==
    IF CombinedStrategy(kf.globals) THEN ~PositionUsable
    ELSE /\ DirectStrategy(kf.globals)
         /\ ~(/\ ParsesAsReal(Cell(kf.globals["dlatcol"]))
              /\ ParsesAsReal(Cell(kf.globals["dloncol"])))

\* A cell of the row read through a non-empty csv_header does not convert to
\* the datatype of its identifier.
CellFails ==
    \E id \in DOMAIN kf.ids :
        /\ id \notin {"dlat", "dlon"}
        /\ kf.ids[id]["csv_header"] # ""
        /\ ~Converts(kf.ids[id]["datatype"], Cell(kf.ids[id]["csv_header"]))

\* C21: a row whose position is unusable is returned by process_data_row as
\* a LocationSkip even when another declared cell of the row would fail
\* conversion: the position is decided before any field read through
\* csv_header is converted.  The row does not abort the run, and the
\* validation pass counts it against the skip budget.
C21_SkipBeforeFatal ==
    (Called /\ PositionUnusable /\ CellFails) =>
        /\ last.res.kind = "Skip"
        /\ err \notin {"ValueError", "KeyError", "TypeError"}
        /\ Validating =>
              /\ row_count = last.line - 1
              /\ skipped_count = Len(skipped_msgs)
              /\ skipped_count >= 1
              /\ skipped_msgs[Len(skipped_msgs)] = last.res.msg

-----------------------------------------------------------------------------
(* process_data_row on its own, called row by row with a KeyFile object whose
   globals hold a false dllcol beside dlatcol and dloncol: the branch of lines
   118-139.  KeyFile.read leaves dllcol out of globals when the key file does
   not set it, so this object is made by the caller, not read from a file. *)

DirectColsIn == {<<"latitude", "longitude">>, <<"y", "x">>}

DirectKeyFile(dlatcol, dloncol) ==
    [globals |-> [dllcol |-> "", dlatcol |-> dlatcol, dloncol |-> dloncol,
                  epsg_code |-> 4326, maxskippct |-> [n |-> 50, k |-> 0],
                  encoding |-> "utf-8"],
     ids |-> [cnt |-> [identifier |-> "cnt", csv_header |-> "n",
                       datatype |-> "integer"]],
     hdr_to_id |-> [n |-> "cnt"],
     ids_order |-> <<"cnt">>]

\* Rows under the header dlatcol, dloncol, n: a Record, a blank latitude, a
\* latitude that is no number, a count that is no number, a row with the
\* latitude cell alone, a longitude that is no number.
DirectRowsIn ==
    { <<"37.5", "-122.3", "5">>, <<"", "-122.3", "5">>, <<" abc ", "1", "x">>,
      <<"1", "2", "x">>, <<"1">>, <<"2", "east", "5">> }

InitRow ==
    /\ pc = "row"
    /\ keyrows = << >>
    /\ kpos = 0
    /\ retval = EmptyDict
    /\ cst = ColsStart
    /\ err = ""
    /\ dpos = 0
    /\ row_count = 0
    /\ skipped_count = 0
    /\ skipped_msgs = << >>
    /\ str_col_widths = EmptyDict
    /\ last = NoCall
    /\ out = NoOutput
    /\ old_output = FALSE
    /\ parser = DATA_PARSE
    /\ pcall = NoParseCall
    /\ \E cols \in DirectColsIn :
          /\ kf = DirectKeyFile(cols[1], cols[2])
          /\ datafile \in {[header |-> <<cols[1], cols[2], "n">>, rows |-> r] :
                              r \in SeqsUpTo(DirectRowsIn, MaxRows)}

\* (record, skipped_msg) = process_data_row(args, kf, raw_record, line_num)
\* for the next row of the file.
ProcessRow ==
    /\ pc = "row"
    /\ dpos < Len(datafile.rows)
    /\ LET raw_record == zip_record(datafile.header, datafile.rows[dpos + 1])
       IN  last' = [raw |-> raw_record, line |-> dpos + 2,
                    res |-> process_data_row(kf, raw_record, dpos + 2)]
    /\ dpos' = dpos + 1
    /\ UNCHANGED <<pc, err, keyvars, parsevars, datafile, old_output, row_count,
                   skipped_count, skipped_msgs, str_col_widths, out>>

NextRow == ProcessRow

SpecRow == InitRow /\ [][NextRow]_vars

\* The diagnostic shows the cell under h: its stripped text, or for a row
\* that has no such cell None or the empty text.
ShowsCell(h, val) == val = Cell(h) \/ (Cell(h) = None /\ val = StrV(""))

\* The parts of the direct-column diagnostic other than the longitude
\* column's name.
DirectDiagnosticRest ==
    /\ last.res.msg.line = last.line
    /\ last.res.msg.dlatcol = kf.globals["dlatcol"]
    /\ ShowsCell(kf.globals["dlatcol"], last.res.msg.dlatval)
    /\ ShowsCell(kf.globals["dloncol"], last.res.msg.dlonval)

-----------------------------------------------------------------------------
(* ParseDatatype on its own: any NA sets, any method, any value *)

NAIn == {"", "NA"}
ParseValsIn ==
    {None, StrV(""), StrV("NA"), StrV("3.14"), StrV("-7"), StrV(" 5"),
     StrV("abc"), StrV("nan")}
TypenamesIn == {"string", "integer", "real", "date"}

InitParse ==
    /\ pc = "parse"
    /\ keyrows = << >>
    /\ PipelineStart
    /\ NoDataFile
    /\ parser \in [number_NA : SUBSET NAIn, string_NA : SUBSET NAIn]
    /\ pcall = NoParseCall

\* reset_number_NA, reset_string_NA; None makes the empty list.
ResetNumberNA ==
    /\ pc = "parse"
    /\ \E na \in SUBSET NAIn : parser' = [parser EXCEPT !.number_NA = na]
    /\ UNCHANGED <<pc, err, keyvars, datavars, pcall>>

ResetStringNA ==
    /\ pc = "parse"
    /\ \E na \in SUBSET NAIn : parser' = [parser EXCEPT !.string_NA = na]
    /\ UNCHANGED <<pc, err, keyvars, datavars, pcall>>

Called1(method, val, res) ==
    [method |-> method, self |-> parser, typename |-> "", val |-> val, res |-> res]

CallInteger ==
    /\ pc = "parse"
    /\ \E val \in ParseValsIn : pcall' = Called1("integer", val, integer(parser, val))
    /\ UNCHANGED <<pc, err, keyvars, datavars, parser>>

CallReal ==
    /\ pc = "parse"
    /\ \E val \in ParseValsIn : pcall' = Called1("real", val, real(parser, val))
    /\ UNCHANGED <<pc, err, keyvars, datavars, parser>>

CallString ==
    /\ pc = "parse"
    /\ \E val \in ParseValsIn : pcall' = Called1("string", val, string(parser, val))
    /\ UNCHANGED <<pc, err, keyvars, datavars, parser>>

CallTypedVal ==
    /\ pc = "parse"
    /\ \E typename \in TypenamesIn, val \in ParseValsIn :
          pcall' = [method |-> "typed_val", self |-> parser, typename |-> typename,
                    val |-> val, res |-> typed_val(parser, typename, val)]
    /\ UNCHANGED <<pc, err, keyvars, datavars, parser>>

NextParse ==
    \/ ResetNumberNA
    \/ ResetStringNA
    \/ CallInteger
    \/ CallReal
    \/ CallString
    \/ CallTypedVal

SpecParse == InitParse /\ [][NextParse]_vars

\* What the claim says a method returns for a value, with the NA sets of the
\* parser it was called on.
ExpectedValue(self, method, val) ==
    LET na == IF method = "string" THEN self.string_NA ELSE self.number_NA
    IN  IF val.t = "None" \/ val.v \in na THEN None
        ELSE IF method = "string" THEN val
        ELSE IF method = "integer"
             THEN IF IntLiteral(val.v) THEN IntV(IntValue(val.v)) ELSE Raised
        ELSE IF RealLiteral(val.v) THEN RealV(RealValue(val.v)) ELSE Raised

\* C17: integer and real return None exactly when the input is None or in
\* number_NA, string returns None exactly when the input is None or in
\* string_NA and otherwise the input unchanged; a value that is no sentinel
\* and no numeric literal raises ValueError from integer and real; typed_val
\* does what the method of its datatype does, and raises ValueError for a
\* datatype other than string, integer, real.
C17_TypedValueParsing ==
    pcall.method # "none" =>
        LET meth == IF pcall.method = "typed_val" THEN pcall.typename ELSE pcall.method
            sentinel ==
                \/ pcall.val.t = "None"
                \/ pcall.val.v \in (IF meth = "string" THEN pcall.self.string_NA
                                    ELSE pcall.self.number_NA)
        IN  IF meth \notin {"string", "integer", "real"} THEN pcall.res = Raised
            ELSE /\ pcall.res = None <=> sentinel
                 /\ pcall.res = ExpectedValue(pcall.self, meth, pcall.val)

\* With number_NA = {''} and no string_NA, '' has been read as a string and
\* is still ''.
C17_Witness ==
    /\ pcall.method = "typed_val"
    /\ pcall.typename = "string"
    /\ pcall.self = DATA_PARSE
    /\ pcall.val = StrV("")
    /\ pcall.res = StrV("")
    /\ integer(pcall.self, pcall.val) = None

=============================================================================
